---- MODULE Spec2Model ----
(***************************************************************************)
(* System-audio capture engine of voicebox (tauri/src-tauri/src/           *)
(* audio_capture): the shared AudioCaptureState, the two platform          *)
(* backends (macOS ScreenCaptureKit, Windows WASAPI loopback), the         *)
(* start_capture / stop_capture lifecycle with its stop channel and        *)
(* max-duration timer, and the WAV encoder; and the sidecar server         *)
(* lifecycle of tauri/src-tauri/src/main.rs (start_server, stop_server).   *)
(*                                                                         *)
(* A "session" is one call of start_capture; sessions are numbered         *)
(* 1, 2, ... in call order.  The caller issues start_capture and           *)
(* stop_capture one after the other (a call returns before the next one    *)
(* begins); worker threads, spawned tasks, timers and native callbacks     *)
(* run concurrently with the caller and with each other.  Time is not      *)
(* measured: a sleep is a point where the other processes may or may not   *)
(* take steps.                                                             *)
(***************************************************************************)
EXTENDS Integers, Sequences, FiniteSets, TLC

\* ------------------------------------------------------------- bounds
MaxSessions == 2
MaxSamples == 4
\* sessions in the behaviours checked under fairness
MaxTimedSessions == 1
\* longest sample sequence handed to the encoder on its own
EncMaxLen == 3
\* longest channel buffer of a native buffer list
MaxFrames == 2
\* concurrent invocations of start_server, and start_server calls in all
MaxCalls == 2
MaxStarts == 3

Sessions == 1..MaxSessions
Calls == 1..MaxCalls
Sidecars == 1..MaxStarts

\* ------------------------------------------------- program constants
DefaultRate == 44100
DefaultChannels == 2
MacRate == 48000
MacChannels == 2
FloatBytes == 4
I16Max == 32767
\* fixed-point representation of the f32 value 1.0 (samples are in 1/1000)
One == 1000

Backends == {"macos", "windows"}

\* Native buffers delivered to a backend, already normalised to f32 samples
\* (one stereo frame: 0.5 and an out-of-range -1.5).
Chunks == { <<500, -1500>> }

\* Mix formats the default render device reports (wasapi get_mixformat).
MixFormats == { [rate |-> 48000, ch |-> 2, bps |-> 4] }

\* Error strings of the code (EmptyCapture is "No audio samples captured").
EmptyCapture == "No audio samples captured"
NoError == "none"

\* Outcomes of the native calls of the macOS start_capture.
MacStartOutcomes == {"ok", "Failed to get shareable content",
                     "No displays available", "Failed to start capture"}

\* Outcomes of the native calls of the Windows capture thread before its loop.
WinInitOutcomes == {"ok", "Failed to initialize COM",
                    "Failed to get audio device", "Failed to get audio client",
                    "Failed to get mix format", "Failed to get device period",
                    "Failed to initialize audio client",
                    "Failed to set event handle",
                    "Failed to get capture client", "Failed to start stream"}

\* The failures the capture thread only prints (eprintln!) before returning.
WinUnrecorded == {"Failed to initialize COM", "Failed to get device period",
                  "Failed to set event handle"}

\* The failures that happen before the mix format is written to the state.
WinBeforeFormat == {"Failed to initialize COM", "Failed to get audio device",
                    "Failed to get audio client", "Failed to get mix format"}

VARIABLES
  backend,      \* which backend is compiled in
  samples,      \* AudioCaptureState.samples
  sample_rate,  \* AudioCaptureState.sample_rate
  channels,     \* AudioCaptureState.channels
  stop_tx,      \* AudioCaptureState.stop_tx: 0 = None, s = Some(sender of session s)
  error,        \* AudioCaptureState.error: NoError = None
  stream,       \* AudioCaptureState.stream (macOS): 0 = None, s = stream of session s
  nsessions,    \* number of start_capture calls so far
  startRes,     \* per session: what its start_capture returned
  chan,         \* per session: the mpsc channel: "none", "open", "sent", "closed"
  task,         \* per session: the spawned receiver task: "none", "waiting", "done"
  timer,        \* per session: the max-duration sleep: "none", "pending", "fired", "cancelled"
  stop_flag,    \* per session (Windows): the AtomicBool
  worker,       \* per session (Windows): capture thread: "none", "init", "loop", "exited"
  bps,          \* per session (Windows): bytes_per_sample of the thread in its loop
  native,       \* per session: the native stream: "none", "created", "running", "stopped"
  stops,        \* per session: number of native stream stop calls
  pc,           \* the caller: "idle", or "stop_wait" inside stop_capture's sleep
  lastOp,       \* the last public operation that returned: "none", "start", "stop"
  stopRes,      \* what the last stop_capture returned
  stopNative,   \* native stop calls made by the last stop_capture itself
  atSignal,     \* samples when the running stop_capture took the sender
  appended,     \* concatenation of the chunks the backend was given since the last reset
  lock,         \* holder of the samples mutex: 0 free, s the capture thread of session s
  pending,      \* rest of the packet the capture thread holding the mutex is pushing
  child,        \* ServerState.child: 0 for None, else the sidecar whose handle is held
  server_pid,   \* ServerState.server_pid: 0 for None, else a sidecar or ExternalPid
  sidecar,      \* each sidecar process: "none", "starting", "ready", "exited"
  call,         \* each start_server invocation: its position and the sidecar it spawned
  srvRes,       \* what each invocation's last start_server returned
  nstarts,      \* start_server calls made
  external      \* a voicebox server not spawned here is listening on the port

vars == <<backend, samples, sample_rate, channels, stop_tx, error, stream,
          nsessions, startRes, chan, task, timer, stop_flag, worker,
          bps, native, stops, pc, lastOp, stopRes, stopNative, atSignal,
          appended, lock, pending, child, server_pid, sidecar, call,
          srvRes, nstarts, external>>

lockVars == <<lock, pending>>
serverVars == <<child, server_pid, sidecar, call, srvRes, nstarts, external>>
audioVars == <<backend, samples, sample_rate, channels, stop_tx, error, stream,
               nsessions, startRes, chan, task, timer, stop_flag, worker,
               bps, native, stops, pc, lastOp, stopRes, stopNative, atSignal,
               appended>>

\* -------------------------------------------------------------- encoder

\* Mutant of Clamp: the sample is not clamped.
Clamp_None(x) == x

\* sample.clamp(-1.0, 1.0)
Clamp(x) == IF x < -One THEN -One ELSE IF x > One THEN One ELSE x

I16Min == -(I16Max + 1)

\* `p as i16` for the product p (in 1/One): the fraction is dropped toward
\* zero and a value outside the i16 range saturates.
AsI16(p) ==
  LET q == IF p >= 0 THEN p \div One ELSE -((-p) \div One)
  IN  IF q > I16Max THEN I16Max ELSE IF q < I16Min THEN I16Min ELSE q

\* (clamped * 32767.0) as i16
ToI16(x) == AsI16(Clamp(x) * I16Max)

RECURSIVE Quantise(_)
Quantise(s) ==
  IF s = <<>> THEN <<>> ELSE <<ToI16(Head(s))>> \o Quantise(Tail(s))

\* Mutant of LeBytes: the two bytes are written high byte first.
LeBytes_BigEndian(v) ==
  LET u == (v + 65536) % 65536 IN <<u \div 256, u % 256>>

\* writer.write_sample(i16): two bytes, two's complement, low byte first
LeBytes(v) ==
  LET u == (v + 65536) % 65536 IN <<u % 256, u \div 256>>

RECURSIVE WriteSamples(_)
WriteSamples(q) ==
  IF q = <<>> THEN <<>> ELSE LeBytes(Head(q)) \o WriteSamples(Tail(q))

\* samples_to_wav when every writer call succeeds: the header fields of the
\* WavSpec, the data length finalize writes, and the data bytes.
SamplesToWav(s, rate, ch) ==
  LET data == WriteSamples(Quantise(s))
  IN  [channels |-> ch, sample_rate |-> rate, bits |-> 16,
       data_len |-> Len(data), data |-> data]

NoWav == [channels |-> 0, sample_rate |-> 0, bits |-> 0, data_len |-> 0,
          data |-> <<>>]

Ok(wav) == [kind |-> "ok", msg |-> "", wav |-> wav]
Err(m) == [kind |-> "err", msg |-> m, wav |-> NoWav]
NoResult == [kind |-> "none", msg |-> "", wav |-> NoWav]

\* How the calls on the WavWriter can end: all succeed, or WavWriter::new,
\* a write_sample or finalize returns an error (the message is the prefix of
\* the map_err format string).
WriterOutcomes == {"ok", "Failed to create WAV writer",
                   "Failed to write sample", "Failed to finalize WAV"}

\* Mutant of SamplesToWavResult: a writer error still hands out the bytes.
SamplesToWavResult_Partial(s, rate, ch, o) ==
  IF o # "ok" THEN [kind |-> "err", msg |-> o, wav |-> SamplesToWav(s, rate, ch)]
  ELSE IF Len(s) % ch # 0 THEN Err("Failed to finalize WAV")
  ELSE Ok(SamplesToWav(s, rate, ch))

\* samples_to_wav as a Result; o is how the writer's calls end.  Every error
\* leaves through map_err(..)?, so the buffer is returned only after
\* finalize.  (finalize itself reports an unfinished frame when the number of
\* samples written is not a multiple of the channel count.)
SamplesToWavResult(s, rate, ch, o) ==
  IF o # "ok" THEN Err(o)
  ELSE IF Len(s) % ch # 0 THEN Err("Failed to finalize WAV")
  ELSE Ok(SamplesToWav(s, rate, ch))

\* ---------------------------------------------------------------- state

Init ==
  /\ backend \in Backends
  /\ samples = <<>>
  /\ sample_rate = DefaultRate
  /\ channels = DefaultChannels
  /\ stop_tx = 0
  /\ error = NoError
  /\ stream = 0
  /\ nsessions = 0
  /\ startRes = [s \in Sessions |-> "none"]
  /\ chan = [s \in Sessions |-> "none"]
  /\ task = [s \in Sessions |-> "none"]
  /\ timer = [s \in Sessions |-> "none"]
  /\ stop_flag = [s \in Sessions |-> FALSE]
  /\ worker = [s \in Sessions |-> "none"]
  /\ bps = [s \in Sessions |-> 0]
  /\ native = [s \in Sessions |-> "none"]
  /\ stops = [s \in Sessions |-> 0]
  /\ pc = "idle"
  /\ lastOp = "none"
  /\ stopRes = NoResult
  /\ stopNative = 0
  /\ atSignal = <<>>
  /\ appended = <<>>
  /\ lock = 0
  /\ pending = <<>>
  /\ child = 0
  /\ server_pid = 0
  /\ sidecar = [p \in Sidecars |-> "none"]
  /\ call = [c \in Calls |-> [pc |-> "idle", proc |-> 0]]
  /\ srvRes = [c \in Calls |-> "none"]
  /\ nstarts = 0
  /\ external = FALSE

\* Mutant of DropSender: dropping the sender leaves the channel open.
DropSender_Leaks(ch, t) == ch

\* Dropping the Sender held in a stop_tx slot closes its channel.
DropSender(ch, t) ==
  IF t # 0 /\ ch[t] = "open" THEN [ch EXCEPT ![t] = "closed"] ELSE ch

\* Mutant of NativeStop: the stop call is made but the stream keeps running.
NativeStop_KeepsRunning(nat, s) == nat

\* SCStream::stop_capture / IAudioClient::Stop on the stream of session s
NativeStop(nat, s) ==
  IF nat[s] = "running" THEN [nat EXCEPT ![s] = "stopped"] ELSE nat

\* Mutant of ExtendFromSlice: the buffer is assigned, not extended.
ExtendFromSlice_Overwrite(buf, chunk) == chunk

\* samples_guard.extend_from_slice(chunk) / the push loop of one packet
ExtendFromSlice(buf, chunk) == buf \o chunk

\* AudioCaptureState::reset, as far as the sample buffer goes
ResetSamples(buf) == <<>>

\* ------------------------------------------------------- start_capture

\* Mutant of MacStartResult: the result of the native calls is ignored.
MacStartResult_Swallowed(o) == "ok"

\* What the macOS start_capture returns when its native calls end as o: every
\* failure leaves through map_err(..)? or return Err(..).
MacStartResult(o) == o

\* macOS start_capture; o is the outcome of its native calls.
MacStartCapture(o) ==
  LET s == nsessions + 1
      early == o \in {"Failed to get shareable content", "No displays available"}
  IN
  /\ backend = "macos"
  /\ pc = "idle"
  /\ nsessions < MaxSessions
  /\ nsessions' = s
  /\ samples' = ResetSamples(samples)
  /\ appended' = <<>>
  /\ error' = NoError
  /\ startRes' = [startRes EXCEPT ![s] = MacStartResult(o)]
  /\ lastOp' = "start"
  /\ IF early
       THEN UNCHANGED <<stop_tx, chan, sample_rate, channels, stream, native,
                        task, timer>>
       ELSE /\ stop_tx' = s
            /\ chan' = [DropSender(chan, stop_tx) EXCEPT ![s] = "open"]
            /\ sample_rate' = MacRate
            /\ channels' = MacChannels
            /\ stream' = s
            /\ native' = [native EXCEPT ![s] = IF o = "ok" THEN "running" ELSE "created"]
            /\ task' = [task EXCEPT ![s] = IF o = "ok" THEN "waiting" ELSE "none"]
            /\ timer' = [timer EXCEPT ![s] = IF o = "ok" THEN "pending" ELSE "none"]
  /\ stopRes' = NoResult
  /\ stopNative' = 0
  /\ atSignal' = <<>>
  /\ UNCHANGED <<lockVars, serverVars, backend, stop_flag, worker, bps, stops, pc>>

\* Windows start_capture: it calls no native API itself and always returns Ok.
WinStartCapture ==
  LET s == nsessions + 1 IN
  /\ backend = "windows"
  /\ pc = "idle"
  /\ nsessions < MaxSessions
  /\ nsessions' = s
  /\ samples' = ResetSamples(samples)
  /\ appended' = <<>>
  /\ error' = NoError
  /\ stop_tx' = s
  /\ chan' = [DropSender(chan, stop_tx) EXCEPT ![s] = "open"]
  /\ task' = [task EXCEPT ![s] = "waiting"]
  /\ worker' = [worker EXCEPT ![s] = "init"]
  /\ timer' = [timer EXCEPT ![s] = "pending"]
  /\ startRes' = [startRes EXCEPT ![s] = "ok"]
  /\ lastOp' = "start"
  /\ stopRes' = NoResult
  /\ stopNative' = 0
  /\ atSignal' = <<>>
  /\ UNCHANGED <<lockVars, serverVars, backend, sample_rate, channels, stream, stop_flag,
                 bps, native, stops, pc>>

StartCapture == (\E o \in MacStartOutcomes : MacStartCapture(o)) \/ WinStartCapture

\* -------------------------------------------------------- stop_capture

\* stop_capture up to its sleep: take the sender (the send future is dropped
\* unpolled, so nothing is sent and the channel closes when tx is dropped);
\* macOS also takes state.stream and calls its stop_capture.
StopSignal ==
  /\ pc = "idle"
  /\ pc' = "stop_wait"
  /\ stop_tx' = 0
  /\ chan' = DropSender(chan, stop_tx)
  /\ atSignal' = samples
  /\ IF backend = "macos" /\ stream # 0
       THEN /\ stops' = [stops EXCEPT ![stream] = @ + 1]
            /\ native' = NativeStop(native, stream)
            /\ stopNative' = 1
       ELSE /\ UNCHANGED <<stops, native>>
            /\ stopNative' = 0
  /\ stream' = 0
  /\ stopRes' = NoResult
  /\ UNCHANGED <<lockVars, serverVars, backend, samples, sample_rate, channels, error, nsessions,
                 startRes, task, timer, stop_flag, worker, bps, lastOp,
                 appended>>

\* state.samples.lock().unwrap().clone()
Snapshot(buf) == buf

\* Mutant of StopResult: the emptiness check is missing.
StopResult_NoEmptyCheck(be, err, buf, rate, ch, o) ==
  IF be = "windows" /\ err # NoError THEN Err(err)
  ELSE SamplesToWavResult(buf, rate, ch, o)

\* Mutant of StopResult: the error slot is looked at only when there are no
\* samples.
StopResult_SamplesFirst(be, err, buf, rate, ch, o) ==
  IF buf # <<>> THEN SamplesToWavResult(buf, rate, ch, o)
  ELSE IF be = "windows" /\ err # NoError THEN Err(err)
  ELSE Err(EmptyCapture)

\* What stop_capture returns from the state it finds after the sleep; o is how
\* the calls on the WAV writer end.
StopResult(be, err, buf, rate, ch, o) ==
  IF be = "windows" /\ err # NoError THEN Err(err)
  ELSE IF buf = <<>> THEN Err(EmptyCapture)
  ELSE SamplesToWavResult(buf, rate, ch, o)

\* stop_capture after its sleep: error slot (Windows), snapshot, encode; o is
\* how the calls on the WAV writer end.
StopFinishWith(o) ==
  /\ pc = "stop_wait"
  /\ pc' = "idle"
  /\ stopRes' = StopResult(backend, error, Snapshot(samples), sample_rate,
                           channels, o)
  /\ lastOp' = "stop"
  /\ UNCHANGED <<lockVars, serverVars, backend, samples, sample_rate, channels, stop_tx, error,
                 stream, nsessions, startRes, chan, task, timer,
                 stop_flag, worker, bps, native, stops, stopNative, atSignal,
                 appended>>

\* stop_capture after its sleep.  The writer writes into a Cursor over a
\* Vec<u8> with a 16-bit integer WavSpec: none of its calls returns an I/O or
\* format error.
StopFinish == StopFinishWith("ok")

\* ------------------------------------------------- macOS asynchronous parts

\* The longest of the channel buffers (0 when there is none).
MaxSamplesOf(channel_data) ==
  LET lens == {Len(channel_data[c]) : c \in 1..Len(channel_data)}
  IN  IF lens = {} THEN 0 ELSE CHOOSE m \in lens : \A n \in lens : n <= m

NonEmpty(b) == Len(b) > 0

\* extract_audio_samples on the buffer list of a CMSampleBuffer, each
\* AudioBuffer given as the sequence of its f32 values: no buffer gives
\* nothing, one buffer is passed through, several buffers are interleaved.
\* Only the buffers with num_samples > 0 are pushed to channel_data, and the
\* interleave loop runs over channel_data.
ExtractAudioSamples(buffers) ==
  IF Len(buffers) = 0 THEN <<>>
  ELSE IF Len(buffers) = 1 THEN buffers[1]
  ELSE LET channel_data == SelectSeq(buffers, NonEmpty)
           max_samples == MaxSamplesOf(channel_data)
           n == Len(channel_data)
       IN  [k \in 1..(max_samples * n) |->
              LET i == (k - 1) \div n
                  channel == channel_data[((k - 1) % n) + 1]
              IN  IF i < Len(channel) THEN channel[i + 1] ELSE 0]

\* AudioHandler::did_output_sample_buffer for an audio buffer of a running
\* stream: lock samples, extend_from_slice.
MacDeliver(s, c) ==
  /\ backend = "macos"
  /\ native[s] = "running"
  /\ Len(samples) + Len(c) <= MaxSamples
  /\ samples' = ExtendFromSlice(samples, c)
  /\ appended' = appended \o c
  /\ UNCHANGED <<lockVars, serverVars, backend, sample_rate, channels, stop_tx, error, stream,
                 nsessions, startRes, chan, task, timer, stop_flag,
                 worker, bps, native, stops, pc, lastOp, stopRes, stopNative,
                 atSignal>>

\* did_output_sample_buffer for the native buffer list b.
MacHandler(s, b) == MacDeliver(s, ExtractAudioSamples(b))

\* What the spawned task does once its select! completes.
MacTaskStop(s, how) ==
  /\ task' = [task EXCEPT ![s] = "done"]
  /\ timer' = [timer EXCEPT ![s] = how]
  /\ stops' = [stops EXCEPT ![s] = @ + 1]
  /\ native' = NativeStop(native, s)
  /\ UNCHANGED <<lockVars, serverVars, backend, samples, sample_rate, channels, stop_tx, error,
                 stream, nsessions, startRes, chan, stop_flag, worker,
                 bps, pc, lastOp, stopRes, stopNative, atSignal, appended>>

\* The spawned task: the sleep(max_duration_secs) branch of select! wins.
MacTaskTimeout(s) ==
  /\ backend = "macos"
  /\ task[s] = "waiting"
  /\ MacTaskStop(s, "fired")

\* The spawned task: rx.recv() returns (a message, or None on a closed channel).
MacTaskRecv(s) ==
  /\ backend = "macos"
  /\ task[s] = "waiting"
  /\ chan[s] \in {"sent", "closed"}
  /\ MacTaskStop(s, "cancelled")

\* ----------------------------------------------- Windows asynchronous parts

\* The bridge task: rx.recv().await returns, stop_flag.store(true).
WinBridge(s) ==
  /\ backend = "windows"
  /\ task[s] = "waiting"
  /\ chan[s] \in {"sent", "closed"}
  /\ task' = [task EXCEPT ![s] = "done"]
  /\ stop_flag' = [stop_flag EXCEPT ![s] = TRUE]
  /\ UNCHANGED <<lockVars, serverVars, backend, samples, sample_rate, channels, stop_tx, error,
                 stream, nsessions, startRes, chan, timer, worker, bps,
                 native, stops, pc, lastOp, stopRes, stopNative, atSignal,
                 appended>>

\* Mutant of SendStop: the timeout task sends nothing and keeps the channel open.
SendStop_Nothing(ch, t) == ch

\* tx.send(()).await of the timeout task on the sender t it took.
SendStop(ch, t) ==
  IF t # 0 /\ ch[t] = "open"
    THEN [ch EXCEPT ![t] = IF task[t] = "waiting" THEN "sent" ELSE "closed"]
    ELSE ch

\* The timeout task of session s: the sleep is over, it takes whatever sender
\* state.stop_tx holds and sends on it.
WinTimeout(s) ==
  /\ backend = "windows"
  /\ timer[s] = "pending"
  /\ timer' = [timer EXCEPT ![s] = "fired"]
  /\ chan' = SendStop(chan, stop_tx)
  /\ stop_tx' = 0
  /\ UNCHANGED <<lockVars, serverVars, backend, samples, sample_rate, channels, error, stream,
                 nsessions, startRes, task, stop_flag, worker, bps,
                 native, stops, pc, lastOp, stopRes, stopNative, atSignal,
                 appended>>

\* The capture thread from its spawn to the start of its loop; o is the
\* outcome of its native calls, f the mix format of the device.
WinInit(s, o, f) ==
  /\ backend = "windows"
  /\ worker[s] = "init"
  /\ error' = IF o = "ok" \/ o \in WinUnrecorded THEN error ELSE o
  /\ IF o \in WinBeforeFormat
       THEN UNCHANGED <<sample_rate, channels>>
       ELSE /\ sample_rate' = f.rate
            /\ channels' = f.ch
  /\ bps' = [bps EXCEPT ![s] = IF o = "ok" THEN f.bps ELSE 0]
  /\ worker' = [worker EXCEPT ![s] = IF o = "ok" THEN "loop" ELSE "exited"]
  /\ native' = [native EXCEPT ![s] = IF o = "ok" THEN "running" ELSE @]
  /\ UNCHANGED <<lockVars, serverVars, backend, samples, stop_tx, stream, nsessions, startRes,
                 chan, task, timer, stop_flag, stops, pc, lastOp, stopRes,
                 stopNative, atSignal, appended>>

\* The samples one packet adds: nothing unless bytes_per_sample == 4.
WinPacket(buf, width, c) ==
  IF width = FloatBytes THEN ExtendFromSlice(buf, c) ELSE buf

\* One iteration of the capture loop that finds stop_flag true: leave the
\* loop, audio_client.stop_stream(), thread ends.
WinLoopExit(s) ==
  /\ backend = "windows"
  /\ worker[s] = "loop"
  /\ stop_flag[s]
  /\ worker' = [worker EXCEPT ![s] = "exited"]
  /\ bps' = [bps EXCEPT ![s] = 0]
  /\ stops' = [stops EXCEPT ![s] = @ + 1]
  /\ native' = NativeStop(native, s)
  /\ UNCHANGED <<lockVars, serverVars, backend, samples, sample_rate, channels, stop_tx, error,
                 stream, nsessions, startRes, chan, task, timer, stop_flag,
                 pc, lastOp, stopRes, stopNative, atSignal, appended>>

\* One iteration of the capture loop that finds stop_flag false and reads a
\* packet of frames: the bytes are pushed as f32 samples under the samples
\* lock.  (The store of the flag by the bridge task is seen by this thread
\* only, so an iteration is taken as one step; an iteration without a packet
\* changes nothing.)
WinLoopRead(s, c) ==
  /\ backend = "windows"
  /\ worker[s] = "loop"
  /\ ~stop_flag[s]
  /\ Len(samples) + Len(c) <= MaxSamples
  /\ Len(appended) + Len(c) <= MaxSamples
  /\ samples' = WinPacket(samples, bps[s], c)
  /\ appended' = appended \o c
  /\ UNCHANGED <<lockVars, serverVars, backend, sample_rate, channels, stop_tx, error, stream,
                 nsessions, startRes, chan, task, timer, stop_flag, worker,
                 bps, native, stops, pc, lastOp, stopRes, stopNative,
                 atSignal>>

\* ------------------------------------------------------------ behaviours

\* The steps of the tasks, timers, threads and native callbacks.
Background ==
  \/ \E s \in Sessions, c \in Chunks : MacDeliver(s, c)
  \/ \E s \in Sessions : MacTaskTimeout(s)
  \/ \E s \in Sessions : MacTaskRecv(s)
  \/ \E s \in Sessions : WinBridge(s)
  \/ \E s \in Sessions : WinTimeout(s)
  \/ \E s \in Sessions, o \in WinInitOutcomes, f \in MixFormats : WinInit(s, o, f)
  \/ \E s \in Sessions : WinLoopExit(s)
  \/ \E s \in Sessions, c \in Chunks : WinLoopRead(s, c)

Next ==
  \/ StartCapture
  \/ StopSignal
  \/ StopFinish
  \/ Background

Spec == Init /\ [][Next]_vars

\* Fairness: the tokio runtime runs every spawned task that can proceed, its
\* timers fire, the OS schedules the capture thread, and stop_capture's sleep
\* ends.  The caller itself is free never to call again.
Fairness ==
  /\ WF_vars(StopFinish)
  /\ \A s \in Sessions :
       /\ WF_vars(MacTaskTimeout(s))
       /\ WF_vars(MacTaskRecv(s))
       /\ WF_vars(WinBridge(s))
       /\ WF_vars(WinTimeout(s))
       /\ WF_vars(\E o \in WinInitOutcomes, f \in MixFormats : WinInit(s, o, f))
       /\ WF_vars(WinLoopExit(s))

\* The behaviours checked under fairness start at most MaxTimedSessions sessions.
TimedNext ==
  \/ nsessions < MaxTimedSessions /\ StartCapture
  \/ StopSignal
  \/ StopFinish
  \/ Background

FairSpec == Init /\ [][TimedNext]_vars /\ Fairness

\* ---------------------------------------------------- the encoder alone

\* Sample values (in 1/One) around the clamp limits and around zero.
EncValues == {-1500, -1000, -999, -1, 0, 1, 999, 1000, 1500}

RECURSIVE SeqsUpTo(_, _)
SeqsUpTo(S, n) ==
  IF n = 0 THEN {<<>>}
  ELSE LET shorter == SeqsUpTo(S, n - 1)
       IN  shorter \cup {Append(q, x) : q \in shorter, x \in S}

EncInputs == SeqsUpTo(EncValues, EncMaxLen)

\* Formats a session can have recorded: the macOS backend always writes
\* 48000 / 2, the Windows backend whatever the device reports.
EncFormats(be) ==
  IF be = "macos" THEN {[rate |-> MacRate, ch |-> MacChannels]}
  ELSE {[rate |-> r, ch |-> c] : r \in {DefaultRate, MacRate}, c \in {1, 2}}

\* stop_capture of the first session in its sleep, the capture halted, with
\* any buffer content and recorded format.
EncInit ==
  /\ backend \in Backends
  /\ samples \in EncInputs
  /\ \E f \in EncFormats(backend) : sample_rate = f.rate /\ channels = f.ch
  /\ stop_tx = 0
  /\ error = NoError
  /\ stream = 0
  /\ nsessions = 1
  /\ startRes = [s \in Sessions |-> IF s = 1 THEN "ok" ELSE "none"]
  /\ chan = [s \in Sessions |-> IF s = 1 THEN "closed" ELSE "none"]
  /\ task = [s \in Sessions |-> IF s = 1 THEN "done" ELSE "none"]
  /\ timer = [s \in Sessions |->
                IF s # 1 THEN "none"
                ELSE IF backend = "macos" THEN "cancelled" ELSE "pending"]
  /\ stop_flag = [s \in Sessions |-> s = 1 /\ backend = "windows"]
  /\ worker = [s \in Sessions |->
                 IF s = 1 /\ backend = "windows" THEN "exited" ELSE "none"]
  /\ bps = [s \in Sessions |-> 0]
  /\ native = [s \in Sessions |-> IF s = 1 THEN "stopped" ELSE "none"]
  /\ stops = [s \in Sessions |->
                IF s # 1 THEN 0 ELSE IF backend = "macos" THEN 2 ELSE 1]
  /\ pc = "stop_wait"
  /\ lastOp = "start"
  /\ stopRes = NoResult
  /\ stopNative = (IF backend = "macos" THEN 1 ELSE 0)
  /\ atSignal = samples
  /\ appended = samples
  /\ lock = 0
  /\ pending = <<>>
  /\ child = 0
  /\ server_pid = 0
  /\ sidecar = [p \in Sidecars |-> "none"]
  /\ call = [c \in Calls |-> [pc |-> "idle", proc |-> 0]]
  /\ srvRes = [c \in Calls |-> "none"]
  /\ nstarts = 0
  /\ external = FALSE

\* The rest of that stop_capture, for every way the writer's calls can end.
EncNext == \E o \in WriterOutcomes : StopFinishWith(o)

EncSpec == EncInit /\ [][EncNext]_vars

\* A conforming reader: the 16-bit samples of a container, from its data
\* length and its little-endian data bytes.
WavSamples(wav) ==
  [i \in 1..(wav.data_len \div (wav.bits \div 8)) |->
     LET u == wav.data[2 * i - 1] + 256 * wav.data[2 * i]
     IN  IF u >= 32768 THEN u - 65536 ELSE u]

\* ------------------------------------------- the backends fed many buffers

FeedValues == {100, -200}

\* Native buffer lists of the macOS stream: one interleaved buffer, or two or
\* three planar channel buffers, any of them possibly empty.
FeedBuffers ==
  LET B == SeqsUpTo(FeedValues, MaxFrames)
  IN  {<<a>> : a \in B} \cup {<<a, b>> : a, b \in B}
        \cup {<<a, b, c>> : a, b, c \in B}

\* Packets of the Windows stream: one frame of two channels.
FeedChunks == {<<a, b>> : a, b \in FeedValues}

\* Mix formats the Windows device may report: 32-bit float, or 16-bit PCM at
\* another rate.
FeedFormats == MixFormats \cup {[rate |-> 44100, ch |-> 2, bps |-> 2]}

\* The capture with these inputs, for a max_duration that does not elapse.
FeedNext ==
  \/ nsessions < MaxTimedSessions /\ StartCapture
  \/ StopSignal
  \/ StopFinish
  \/ \E s \in Sessions, b \in FeedBuffers : MacHandler(s, b)
  \/ \E s \in Sessions : MacTaskRecv(s)
  \/ \E s \in Sessions : WinBridge(s)
  \/ \E s \in Sessions, o \in WinInitOutcomes, f \in FeedFormats : WinInit(s, o, f)
  \/ \E s \in Sessions : WinLoopExit(s)
  \/ \E s \in Sessions, c \in FeedChunks : WinLoopRead(s, c)

FeedSpec == Init /\ [][FeedNext]_vars

\* Sessions whose devices report different formats, without audio.
FormatNext ==
  \/ StartCapture
  \/ StopSignal
  \/ StopFinish
  \/ \E s \in Sessions : MacTaskRecv(s)
  \/ \E s \in Sessions : WinBridge(s)
  \/ \E s \in Sessions, o \in WinInitOutcomes, f \in FeedFormats : WinInit(s, o, f)
  \/ \E s \in Sessions : WinLoopExit(s)

FormatSpec == Init /\ [][FormatNext]_vars

\* ------------------------------------------ sessions that can be told apart

\* The audio of session s and the mix format its device reports, chosen so
\* that a sample and a format name the session they come from.
SessionChunk(s) == <<100 * s, -(100 * s)>>
SessionFormat(s) == [rate |-> 8000 * s, ch |-> 2, bps |-> FloatBytes]

\* The capture where session s is given SessionChunk(s) and SessionFormat(s),
\* for a max_duration that does not elapse.
IsolationNext ==
  \/ StartCapture
  \/ StopSignal
  \/ StopFinish
  \/ \E s \in Sessions : MacDeliver(s, SessionChunk(s))
  \/ \E s \in Sessions : MacTaskRecv(s)
  \/ \E s \in Sessions : WinBridge(s)
  \/ \E s \in Sessions, o \in WinInitOutcomes : WinInit(s, o, SessionFormat(s))
  \/ \E s \in Sessions : WinLoopExit(s)
  \/ \E s \in Sessions : WinLoopRead(s, SessionChunk(s))

IsolationSpec == Init /\ [][IsolationNext]_vars

\* ------------------------------------------------------------ vocabulary

IsPrefix(a, b) == Len(a) <= Len(b) /\ SubSeq(b, 1, Len(a)) = a

\* the step in which stop_capture takes the sender (and, on macOS, the stream)
StopBegins == pc = "idle" /\ pc' = "stop_wait"

\* the step in which stop_capture returns
StopReturns == pc = "stop_wait" /\ pc' = "idle"

\* a start_capture succeeded and no stop_capture has been called since
Active == lastOp = "start" /\ pc = "idle" /\ startRes[nsessions] = "ok"

\* the capture thread of s ended on a failed native call before its loop
WinInitFailed(s) == worker[s] = "exited" /\ native[s] = "none"

\* the max-duration timer is what ended session s: on Windows only the
\* timeout task ever sends a message, on macOS the sleep branch won
EndedByTimer(s) ==
  IF backend = "windows" THEN chan[s] = "sent" ELSE timer[s] = "fired"

\* nothing of session s is capturing any more
Halted(s) == native[s] # "running" /\ worker[s] \notin {"init", "loop"}

\* ---------------------------------------------------------------- claims

\* C1: a start_capture called while a session is active (a start succeeded,
\* no stop_capture since) returns success and is a no-op: it starts no native
\* stream, worker thread or task, leaves the stored stop sender in place and
\* keeps the samples captured so far.
C1_IdempotentStart ==
  [][ (StartCapture /\ Active) =>
        /\ startRes'[nsessions'] = "ok"
        /\ samples' = samples
        /\ stop_tx' = stop_tx
        /\ native' = native
        /\ worker' = worker
        /\ task' = task ]_vars

\* C2 (as claimed): whenever stop_capture finds the sample buffer empty at
\* its snapshot, it returns the EmptyCapture error.
C2_EmptyIsEmptyCapture ==
  [][ (StopReturns /\ samples = <<>>) => stopRes' = Err(EmptyCapture) ]_vars

\* C2 (amended): whenever stop_capture finds the sample buffer empty at its
\* snapshot it returns an error, never a success: EmptyCapture, except that
\* the Windows backend returns the error recorded in the error slot when
\* there is one.  On a fresh state it is EmptyCapture.
C2_EmptyIsError ==
  [][ (StopReturns /\ samples = <<>>) =>
        /\ stopRes'.kind = "err"
        /\ stopRes'.wav = NoWav
        /\ stopRes'.msg =
             (IF backend = "windows" /\ error # NoError THEN error
                                                        ELSE EmptyCapture)
        /\ (nsessions = 0 => stopRes'.msg = EmptyCapture) ]_vars

\* C2 witness: a session that appended nothing was stopped and stop_capture
\* returned EmptyCapture.
C2_Witness ==
  /\ pc = "idle" /\ lastOp = "stop" /\ nsessions = 1
  /\ startRes[nsessions] = "ok"
  /\ samples = <<>>
  /\ stopRes = Err(EmptyCapture)

\* C3: once a stop_capture has returned, nothing started by an earlier
\* start_capture is still capturing: no native stream runs, no capture
\* thread is in its loop, and the state holds no sender and no stream.
C3_ReleasedAfterStop ==
  (pc = "idle" /\ lastOp = "stop") =>
     /\ stop_tx = 0
     /\ stream = 0
     /\ \A s \in Sessions : native[s] # "running" /\ worker[s] # "loop"

\* C4: the native stream stop of a session is never executed twice, and a
\* stream that has been stopped was stopped by exactly one call.
C4_NativeStopOnce ==
  \A s \in Sessions :
     /\ stops[s] <= 1
     /\ (native[s] = "stopped" => stops[s] = 1)

\* C5 (as claimed, its result part): a stop_capture that follows a session
\* ended by the max-duration timer returns an encoded result or EmptyCapture.
C5_TimeoutStopResult ==
  [][ (StopReturns /\ nsessions >= 1 /\ EndedByTimer(nsessions)) =>
        (stopRes'.kind = "ok" \/ stopRes' = Err(EmptyCapture)) ]_vars

\* The results the amended C5 allows: an encoded result, EmptyCapture, or
\* (Windows) a backend error that the capture thread records.
C5_AllowedResult(r) ==
  \/ r.kind = "ok" /\ r.wav.data # <<>>
  \/ r = Err(EmptyCapture)
  \/ /\ backend = "windows"
     /\ r.kind = "err"
     /\ r.msg \in (WinInitOutcomes \ WinUnrecorded) \ {"ok"}
     /\ r.wav = NoWav

\* C5 (amended): with no manual stop needed, every session whose
\* start_capture succeeded eventually halts (its native stream is not
\* running and no capture thread of it is alive) and stays halted, so it
\* appends nothing more; every stop_capture in progress returns; and what it
\* returns is an encoded result, EmptyCapture or, on Windows, the backend
\* error recorded in the error slot.
C5_TimeoutHalts ==
  /\ \A s \in Sessions : (startRes[s] = "ok") ~> Halted(s)
  /\ \A s \in Sessions : [](Halted(s) /\ startRes[s] = "ok" => []Halted(s))
  /\ (pc = "stop_wait") ~> (pc = "idle" /\ lastOp = "stop")
  /\ []((pc = "idle" /\ lastOp = "stop") => C5_AllowedResult(stopRes))

\* C5 witness: the sleep branch of the macOS task ended the session, its
\* stream is stopped, and the stop_capture that followed has returned an
\* encoded result.
C5_Witness ==
  /\ backend = "macos" /\ pc = "idle" /\ lastOp = "stop" /\ nsessions = 1
  /\ timer[nsessions] = "fired" /\ native[nsessions] = "stopped"
  /\ Halted(nsessions)
  /\ stopRes.kind = "ok"

\* C6: when stop_capture takes its snapshot, samples have been appended
\* since the last reset and the error slot is empty, it returns success with
\* a non-empty container that holds exactly those samples, quantised, also
\* when the max-duration timer ended the session before stop_capture.
C6_SamplesAreReturned ==
  [][ (StopReturns /\ appended # <<>> /\ error = NoError) =>
        /\ stopRes'.kind = "ok"
        /\ stopRes'.wav.data # <<>>
        /\ stopRes'.wav.data = WriteSamples(Quantise(appended)) ]_vars

\* C6 witness: the Windows timeout task took the sender and sent the stop
\* message, the capture thread left its loop, and the stop_capture that came
\* afterwards (it found no sender and made no native call) returned the
\* samples.
C6_Witness ==
  /\ backend = "windows" /\ pc = "idle" /\ lastOp = "stop" /\ nsessions = 1
  /\ chan[nsessions] = "sent" /\ worker[nsessions] = "exited"
  /\ atSignal # <<>> /\ atSignal = samples /\ appended = samples
  /\ stopRes.kind = "ok" /\ stopRes.wav.data = WriteSamples(Quantise(samples))

\* C7: the samples the backend of a session appends up to the moment it
\* observes the stop signal (the capture thread reads stop_flag true, the
\* macOS stream is stopped) are in the snapshot that stop_capture encodes,
\* in their positions: what was in the buffer when the signal was given is a
\* prefix of the snapshot, and once stop_capture has returned, the backend
\* of the session it ended appends no sample it has not yet been stopped for.
C7_AppendedBeforeObserved ==
  [][ /\ (StopReturns => IsPrefix(atSignal, Snapshot(samples)))
      /\ ((pc = "idle" /\ lastOp = "stop" /\ nsessions >= 1) =>
            ~ \E c \in Chunks : \/ WinLoopRead(nsessions, c)
                                \/ MacDeliver(nsessions, c)) ]_vars

C9_ErrorFirst ==
  [][ (StopReturns /\ error # NoError) => stopRes' = Err(error) ]_vars

\* C9 witness: stop_capture returned a backend error although samples were
\* in the buffer from before it was called.
C9_Witness ==
  /\ pc = "idle" /\ lastOp = "stop"
  /\ atSignal # <<>> /\ IsPrefix(atSignal, samples)
  /\ error # NoError /\ stopRes = Err(error)

\* C10: a stop_capture that comes after a completed stop, after the
\* max-duration timer has ended the session, or when the receiver of the
\* stored sender is gone, sends nothing and performs no native stop.
C10_StopIdempotent ==
  [][ ( /\ StopBegins
        /\ \/ lastOp = "stop"
           \/ nsessions >= 1 /\ EndedByTimer(nsessions)
           \/ stop_tx # 0 /\ task[stop_tx] = "done" )
      => /\ stops' = stops
         /\ \A s \in Sessions : chan'[s] = "sent" => chan[s] = "sent" ]_vars

\* C11: samples is emptied by every start_capture, and between a successful
\* start_capture and the stop_capture that ends the session no step removes
\* or changes an element of it: every step leaves the old content as a
\* prefix of the new one.
C11_AppendOnly ==
  [][ /\ (nsessions' # nsessions => samples' = <<>>)
      /\ (Active => IsPrefix(samples, samples')) ]_vars

\* C12: a stop_capture that returns a recording leaves the sample buffer
\* empty.
C12_StopDrains ==
  [][ (StopReturns /\ stopRes'.kind = "ok") => samples' = <<>> ]_vars

\* C13: every 16-bit sample of a returned container is the input sample
\* clamped to [-1.0, 1.0], scaled by 32767 and truncated toward zero: it lies
\* in [-32767, 32767], an input of 1.0 or more gives 32767, an input of -1.0
\* or less gives -32767, and an input x in between gives the integer y of the
\* sign of x with |y| <= |x| * 32767 < |y| + 1.
C13_Quantisation ==
  (pc = "idle" /\ lastOp = "stop" /\ stopRes.kind = "ok") =>
    LET out == WavSamples(stopRes.wav) IN
    /\ Len(out) = Len(samples)
    /\ \A i \in 1..Len(samples) :
         LET x == samples[i]
             y == out[i]
         IN  /\ -I16Max <= y /\ y <= I16Max
             /\ x >= One => y = I16Max
             /\ x <= -One => y = -I16Max
             /\ (0 <= x /\ x < One) =>
                  y >= 0 /\ y * One <= x * I16Max /\ x * I16Max < (y + 1) * One
             /\ (-One < x /\ x < 0) =>
                  y <= 0 /\ y * One >= x * I16Max /\ x * I16Max > (y - 1) * One

\* C13 witness: 1.5, -1.5 and -0.999 were encoded as 32767, -32767 and
\* -32734 (the product -32734.233 truncated toward zero).
C13_Witness ==
  /\ pc = "idle" /\ lastOp = "stop" /\ stopRes.kind = "ok"
  /\ samples = <<1500, -1500, -999>>
  /\ WavSamples(stopRes.wav) = <<I16Max, -I16Max, -32734>>

\* C15: a returned container declares the sample rate and the channel count
\* it was given and 16 bits per sample, and read back it has as many samples
\* as the input, each the quantised value of the input sample at its index.
C15_RoundTrip ==
  (pc = "idle" /\ lastOp = "stop" /\ stopRes.kind = "ok") =>
    /\ stopRes.wav.sample_rate = sample_rate
    /\ stopRes.wav.channels = channels
    /\ stopRes.wav.bits = 16
    /\ Len(WavSamples(stopRes.wav)) = Len(samples)
    /\ \A i \in 1..Len(samples) : WavSamples(stopRes.wav)[i] = ToI16(samples[i])

\* C15 witness: one frame of two channels at 44100 Hz was encoded and read
\* back as two samples, a negative one among them.
C15_Witness ==
  /\ pc = "idle" /\ lastOp = "stop" /\ stopRes.kind = "ok"
  /\ sample_rate = DefaultRate /\ channels = 2
  /\ stopRes.wav.sample_rate = DefaultRate /\ stopRes.wav.channels = 2
  /\ Len(samples) = 2 /\ samples[1] = 999 /\ samples[2] = -1
  /\ WavSamples(stopRes.wav) = <<32734, -32>>

\* C18: when a call on the WAV writer fails (construction, a sample write, or
\* finalize, which also fails on an unfinished frame), stop_capture returns an
\* error with that cause and no bytes; it returns a container only when every
\* call succeeded, and then the container of the whole sample sequence.
C18_EncoderFailure ==
  [][ \A o \in WriterOutcomes :
        (StopFinishWith(o) /\ error = NoError /\ samples # <<>>) =>
          IF o # "ok" \/ Len(samples) % channels # 0
            THEN /\ stopRes'.kind = "err"
                 /\ stopRes'.msg = (IF o # "ok" THEN o ELSE "Failed to finalize WAV")
                 /\ stopRes'.wav = NoWav
            ELSE /\ stopRes'.kind = "ok"
                 /\ Len(WavSamples(stopRes'.wav)) = Len(samples) ]_vars

\* C18 witness: stop_capture returned a sample-write failure, without bytes,
\* for a buffer that held samples.
C18_Witness ==
  /\ pc = "idle" /\ lastOp = "stop" /\ samples # <<>>
  /\ stopRes.kind = "err" /\ stopRes.msg = "Failed to write sample"
  /\ stopRes.wav = NoWav

\* The interleaving the planar rule asks of the channel buffers b: frame by
\* frame, channel by channel, silence where a channel has no sample.
PaddedInterleave(b) ==
  LET n == Len(b)
      m == MaxSamplesOf(b)
  IN  [k \in 1..(m * n) |->
         LET i == (k - 1) \div n
             channel == b[((k - 1) % n) + 1]
         IN  IF i < Len(channel) THEN channel[i + 1] ELSE 0]

\* C14: when the handler is given two or more channel buffers, of maximum
\* length M, it appends exactly M times the number of buffers elements,
\* element i*C + c being sample i of channel c, or 0.0 when channel c has no
\* sample i (a channel without samples included).
C14_PlanarInterleave ==
  [][ \A s \in Sessions, b \in FeedBuffers :
        (Len(b) >= 2 /\ MacHandler(s, b)) =>
          samples' = samples \o PaddedInterleave(b) ]_vars

\* C16: once the format of the current session has been written (macOS: by
\* start_capture; Windows: by its capture thread) and until the stop_capture
\* that ends the session has returned, no step changes sample_rate or
\* channels.
C16_FormatFixed ==
  [][ ( /\ nsessions >= 1 /\ nsessions' = nsessions
        /\ lastOp = "start" /\ startRes[nsessions] = "ok"
        /\ (backend = "windows" => native[nsessions] # "none") )
      => (sample_rate' = sample_rate /\ channels' = channels) ]_vars

\* C17: after a start_capture that returned an error, the state holds neither
\* the stop sender nor the stream handle of that attempt, its native stream
\* is not running and its timer is not pending.
C17_StartFailsClosed ==
  ( /\ pc = "idle" /\ lastOp = "start" /\ nsessions >= 1
    /\ startRes[nsessions] # "ok" )
  => /\ stop_tx # nsessions
     /\ stream # nsessions
     /\ native[nsessions] # "running"
     /\ timer[nsessions] # "pending"

\* C19: the sample buffer is the concatenation, in delivery order, of the
\* chunks the backend was given since the last reset.
C19_Concatenation == samples = appended

\* C20: a stop_capture of the Windows backend whose capture thread read audio
\* packets and has left its loop never returns EmptyCapture: the packets were
\* converted, or an error was recorded and is what stop_capture returns.
C20_NoSilentEmpty ==
  [][ ( /\ StopReturns /\ backend = "windows" /\ appended # <<>>
        /\ worker[nsessions] = "exited" /\ native[nsessions] = "stopped" )
      => stopRes' # Err(EmptyCapture) ]_vars

\* C21: when the capture thread ends on a failed native call, whichever call
\* it is, it leaves the failure in the error slot.
C21_FailureRecorded ==
  [][ \A s \in Sessions, o \in WinInitOutcomes \ {"ok"}, f \in MixFormats :
        WinInit(s, o, f) => error' = o ]_vars

\* C26: the timeout task of a session takes no sender but its own session's
\* and changes no channel but its own session's.
C26_TimerOwnSession ==
  [][ \A s \in Sessions :
        (MacTaskTimeout(s) \/ WinTimeout(s)) =>
          /\ (stop_tx' = stop_tx \/ stop_tx = s)
          /\ \A t \in Sessions \ {s} : chan'[t] = chan[t] ]_vars

\* the sample values of session k
SessionValues(k) == {SessionChunk(k)[j] : j \in 1..Len(SessionChunk(k))}

\* the samples of q all come from session k
SamplesOf(q, k) == \A i \in 1..Len(q) : q[i] \in SessionValues(k)

\* C24: the sample rate and channel count of a returned container are the
\* ones recorded by a session that produced samples of the container (on
\* macOS every session records 48000 / 2).
C24_FormatOfSameSession ==
  [][ (StopReturns /\ stopRes'.kind = "ok") =>
        \E k \in 1..nsessions :
          /\ \E i \in 1..Len(samples) : samples[i] \in SessionValues(k)
          /\ stopRes'.wav.sample_rate =
               (IF backend = "macos" THEN MacRate ELSE SessionFormat(k).rate)
          /\ stopRes'.wav.channels =
               (IF backend = "macos" THEN MacChannels ELSE SessionFormat(k).ch) ]_vars

\* C25: the buffer holds samples of the session of the last start_capture
\* only.
C25_SessionIsolation == SamplesOf(samples, nsessions)

\* C22: when stop_capture gets to its checks, the stop sender and the stream
\* handle have been taken, the channel of the session being stopped is no
\* longer open, and the backend of that session has been stopped.
C22_FullStopSequence ==
  [][ StopReturns =>
        /\ stop_tx = 0 /\ stream = 0
        /\ nsessions >= 1 =>
             (chan[nsessions] # "open" /\ Halted(nsessions)) ]_vars

\* ------------------------------------------- the samples mutex, step by step

\* Mutant of LockFree: the buffer is not behind a mutex.
LockFree_NoMutex(l) == TRUE

\* Mutex::lock on AudioCaptureState.samples returns only while no other
\* thread holds the guard.
LockFree(l) == l = 0

\* start_capture, whose reset() locks the buffer to clear it.
LockedStart == LockFree(lock) /\ StartCapture

\* The rest of stop_capture, which locks the buffer to clone it.
LockedFinish == LockFree(lock) /\ StopFinish

\* The delivery callback of session s (macOS) or its capture thread having
\* read a packet (Windows) takes the lock, holding the chunk c to append.
LockedAcquire(s, c) ==
  /\ LockFree(lock)
  /\ \/ backend = "macos" /\ native[s] = "running"
     \/ backend = "windows" /\ worker[s] = "loop" /\ ~stop_flag[s]
  /\ Len(samples) + Len(c) <= MaxSamples
  /\ Len(appended) + Len(c) <= MaxSamples
  /\ lock' = s
  /\ pending' = (IF backend = "macos" THEN ExtendFromSlice(<<>>, c)
                 ELSE WinPacket(<<>>, bps[s], c))
  /\ appended' = appended \o c
  /\ UNCHANGED <<serverVars, backend, samples, sample_rate, channels, stop_tx,
                 error, stream, nsessions, startRes, chan, task, timer,
                 stop_flag, worker, bps, native, stops, pc, lastOp, stopRes,
                 stopNative, atSignal>>

\* The holder of the lock appends the next sample of its chunk.
LockedPush(s) ==
  /\ lock = s
  /\ pending # <<>>
  /\ samples' = Append(samples, Head(pending))
  /\ pending' = Tail(pending)
  /\ UNCHANGED <<serverVars, backend, sample_rate, channels, stop_tx, error,
                 stream, nsessions, startRes, chan, task, timer, stop_flag,
                 worker, bps, native, stops, pc, lastOp, stopRes, stopNative,
                 atSignal, appended, lock>>

\* The guard goes out of scope once the whole chunk is appended.
LockedRelease(s) ==
  /\ lock = s
  /\ pending = <<>>
  /\ lock' = 0
  /\ UNCHANGED <<serverVars, audioVars, pending>>

\* The capture thread sees the stop flag at the top of its loop, where it
\* holds no guard.
LockedLoopExit(s) == lock # s /\ WinLoopExit(s)

LockNext ==
  \/ LockedStart
  \/ StopSignal
  \/ LockedFinish
  \/ \E s \in Sessions, c \in Chunks : LockedAcquire(s, c)
  \/ \E s \in Sessions : LockedPush(s)
  \/ \E s \in Sessions : LockedRelease(s)
  \/ \E s \in Sessions : MacTaskRecv(s)
  \/ \E s \in Sessions : WinBridge(s)
  \/ \E s \in Sessions, o \in WinInitOutcomes, f \in MixFormats : WinInit(s, o, f)
  \/ \E s \in Sessions : LockedLoopExit(s)

LockSpec == Init /\ [][LockNext]_vars

\* C23: a snapshot taken by stop_capture, or a reset done by start_capture,
\* never happens while a callback or the capture loop is part-way through
\* appending a native buffer: at that step nobody holds the samples lock, no
\* chunk is half appended, and the buffer is exactly the concatenation of the
\* whole chunks delivered since the last reset.
C23_WholeChunks ==
  [][ (StopReturns \/ nsessions' # nsessions) =>
        /\ lock = 0
        /\ pending = <<>>
        /\ samples = appended ]_vars

\* stop_capture has returned a clip of one whole chunk while the session's
\* callback or capture thread, still running, is half-way through appending
\* the next chunk.
C23_Witness ==
  /\ pc = "idle"
  /\ lastOp = "stop"
  /\ stopRes.kind = "ok"
  /\ stopRes.wav.data = WriteSamples(Quantise(<<500, -1500>>))
  /\ lock # 0
  /\ Len(pending) = 1

\* ------------------------------------------------ manual stop, no timers

\* The behaviours in which no max-duration timer fires (max_duration_secs is
\* longer than the behaviour): whatever halts a session is the manual stop.
ManualNext ==
  \/ nsessions < MaxTimedSessions /\ StartCapture
  \/ StopSignal
  \/ StopFinish
  \/ \E s \in Sessions, c \in Chunks : MacDeliver(s, c)
  \/ \E s \in Sessions : MacTaskRecv(s)
  \/ \E s \in Sessions : WinBridge(s)
  \/ \E s \in Sessions, o \in WinInitOutcomes, f \in MixFormats : WinInit(s, o, f)
  \/ \E s \in Sessions : WinLoopExit(s)
  \/ \E s \in Sessions, c \in Chunks : WinLoopRead(s, c)

\* The runtime runs every spawned task that can proceed, the OS schedules
\* the capture thread, and stop_capture's sleep ends.
ManualFairness ==
  /\ WF_vars(StopFinish)
  /\ \A s \in Sessions :
       /\ WF_vars(MacTaskRecv(s))
       /\ WF_vars(WinBridge(s))
       /\ WF_vars(\E o \in WinInitOutcomes, f \in MixFormats : WinInit(s, o, f))
       /\ WF_vars(WinLoopExit(s))

ManualSpec == Init /\ [][ManualNext]_vars /\ ManualFairness

\* session s has been told to stop and has stopped: its channel is no longer
\* open, its task has woken, (Windows) its stop flag is set, and nothing of
\* it is capturing
ManualStopped(s) ==
  /\ chan[s] # "open"
  /\ task[s] # "waiting"
  /\ backend = "windows" => stop_flag[s]
  /\ Halted(s)

\* C27: with no max-duration timer firing, a stop_capture issued for a
\* session whose start_capture succeeded eventually stops that session: the
\* channel is closed by the dropped sender, the receiving task wakes, on
\* Windows the stop flag is set and the capture thread leaves its loop, on
\* macOS the task makes its native stop call.
C27_ManualStopHalts ==
  \A s \in Sessions :
    (pc = "stop_wait" /\ nsessions = s /\ startRes[s] = "ok") ~> ManualStopped(s)

\* Windows: a stop_capture has returned, the capture thread that had entered
\* its loop has exited on the stop flag, and the timeout task has not fired.
C27_Witness ==
  /\ backend = "windows" /\ pc = "idle" /\ lastOp = "stop"
  /\ timer[1] = "pending"
  /\ chan[1] = "closed" /\ task[1] = "done" /\ stop_flag[1]
  /\ worker[1] = "exited" /\ native[1] = "stopped"

\* ------------------------------------------ every session's workers, no audio

\* The lifecycle with all its sessions, timers and tasks, while the device
\* delivers no audio (what is in the buffer is nothing a worker waits for).
LeakNext ==
  \/ StartCapture
  \/ StopSignal
  \/ StopFinish
  \/ \E s \in Sessions : MacTaskTimeout(s)
  \/ \E s \in Sessions : MacTaskRecv(s)
  \/ \E s \in Sessions : WinBridge(s)
  \/ \E s \in Sessions : WinTimeout(s)
  \/ \E s \in Sessions, o \in WinInitOutcomes, f \in MixFormats : WinInit(s, o, f)
  \/ \E s \in Sessions : WinLoopExit(s)

LeakSpec == Init /\ [][LeakNext]_vars /\ Fairness

\* nothing that the start_capture of session s created is still alive
AllStopped(s) == Halted(s) /\ task[s] # "waiting"

\* C28: whatever start_capture and stop_capture calls are made, a second
\* start_capture without a stop included, every session's capture thread,
\* bridge or select task and native stream eventually stops and stays
\* stopped, given that timers fire and tasks and threads are scheduled.
C28_NoWorkerLeaked ==
  \A s \in Sessions : <>[](nsessions >= s => AllStopped(s))

\* A second start_capture was made with no stop in between, and both
\* sessions' workers have stopped.
C28_Witness ==
  /\ nsessions = 2 /\ lastOp = "start"
  /\ startRes[1] = "ok" /\ startRes[2] = "ok"
  /\ AllStopped(1) /\ AllStopped(2)
  /\ \A s \in {1, 2} : timer[s] # "none" /\ task[s] = "done"

\* ------------------------------------------------- the sidecar server (main.rs)

\* Ok(format!("http://127.0.0.1:{}", SERVER_PORT))
ServerUrl == "http://127.0.0.1:17493"

StartupTimeout == "Server startup timeout - check Console.app for detailed logs"
EndedUnexpectedly == "Server process ended unexpectedly"

\* How start_server's steps from the data directory to sidecar.spawn() can
\* end (the message is the prefix of the map_err format string).
SpawnOutcomes == {"ok", "Failed to get app data dir", "Failed to create data dir",
                  "Failed to get sidecar", "Failed to spawn"}

\* The PID of a voicebox server that this app instance did not spawn; the
\* sidecar p has PID p.
ExternalPid == MaxStarts + 1

\* The voicebox processes listening on SERVER_PORT, as the lsof / netstat
\* probe lists them.
Listeners ==
  (IF external THEN {ExternalPid} ELSE {}) \cup {p \in Sidecars : sidecar[p] = "ready"}

\* the sidecar p has printed "Uvicorn running" or "Application startup complete"
Emitted(p) == sidecar[p] \in {"ready", "gone"}

\* kill -TERM / kill -9 / taskkill on the PID pid
Kill(procs, pid) ==
  [p \in Sidecars |->
     IF p # pid THEN procs[p]
     ELSE IF procs[p] = "starting" THEN "exited"
     ELSE IF procs[p] = "ready" THEN "gone"
     ELSE procs[p]]

\* start_server, invocation c, up to its first check: a held child means
\* the URL is returned at once.
StartServerBegin(c) ==
  /\ call[c].pc = "idle"
  /\ nstarts < MaxStarts
  /\ nstarts' = nstarts + 1
  /\ IF child # 0
       THEN /\ srvRes' = [srvRes EXCEPT ![c] = ServerUrl]
            /\ call' = [call EXCEPT ![c] = [pc |-> "idle", proc |-> 0]]
       ELSE /\ srvRes' = [srvRes EXCEPT ![c] = "none"]
            /\ call' = [call EXCEPT ![c] = [pc |-> "probe", proc |-> 0]]
  /\ UNCHANGED <<child, server_pid, sidecar, external, lockVars, audioVars>>

\* start_server: the probe of the port.  A listening voicebox process is
\* reused: its PID is stored and the URL returned.
StartServerProbe(c) ==
  /\ call[c].pc = "probe"
  /\ IF Listeners # {}
       THEN /\ \E pid \in Listeners : server_pid' = pid
            /\ srvRes' = [srvRes EXCEPT ![c] = ServerUrl]
            /\ call' = [call EXCEPT ![c].pc = "idle"]
       ELSE /\ call' = [call EXCEPT ![c].pc = "spawn"]
            /\ UNCHANGED <<server_pid, srvRes>>
  /\ UNCHANGED <<child, sidecar, nstarts, external, lockVars, audioVars>>

\* start_server from the end of the probe to the store of the child: the
\* data directory, the sidecar command, spawn(), then server_pid and child
\* are stored.
StartServerSpawn(c, o) ==
  LET p == Cardinality({q \in Sidecars : sidecar[q] # "none"}) + 1 IN
  /\ call[c].pc = "spawn"
  /\ IF o # "ok"
       THEN /\ srvRes' = [srvRes EXCEPT ![c] = o]
            /\ call' = [call EXCEPT ![c].pc = "idle"]
            /\ UNCHANGED <<child, server_pid, sidecar>>
       ELSE /\ p \in Sidecars
            /\ sidecar' = [sidecar EXCEPT ![p] = "starting"]
            /\ server_pid' = p
            /\ child' = p
            /\ call' = [call EXCEPT ![c] = [pc |-> "wait", proc |-> p]]
            /\ UNCHANGED srvRes
  /\ UNCHANGED <<nstarts, external, lockVars, audioVars>>

\* The wait loop receives the readiness line of the sidecar it spawned.
StartServerReady(c) ==
  /\ call[c].pc = "wait"
  /\ Emitted(call[c].proc)
  /\ srvRes' = [srvRes EXCEPT ![c] = ServerUrl]
  /\ call' = [call EXCEPT ![c].pc = "idle"]
  /\ UNCHANGED <<child, server_pid, sidecar, nstarts, external, lockVars, audioVars>>

\* The wait loop's rx.recv() returns None: the sidecar ended without the line.
StartServerEnded(c) ==
  /\ call[c].pc = "wait"
  /\ sidecar[call[c].proc] = "exited"
  /\ srvRes' = [srvRes EXCEPT ![c] = EndedUnexpectedly]
  /\ call' = [call EXCEPT ![c].pc = "idle"]
  /\ UNCHANGED <<child, server_pid, sidecar, nstarts, external, lockVars, audioVars>>

\* The wait loop finds more than 120 s elapsed.
StartServerTimeout(c) ==
  /\ call[c].pc = "wait"
  /\ srvRes' = [srvRes EXCEPT ![c] = StartupTimeout]
  /\ call' = [call EXCEPT ![c].pc = "idle"]
  /\ UNCHANGED <<child, server_pid, sidecar, nstarts, external, lockVars, audioVars>>

\* stop_server: take the PID and the child, kill the process of that PID.
StopServer ==
  /\ server_pid' = 0
  /\ child' = 0
  /\ sidecar' = Kill(sidecar, server_pid)
  /\ external' = (external /\ server_pid # ExternalPid)
  /\ UNCHANGED <<call, srvRes, nstarts, lockVars, audioVars>>

\* The sidecar p binds the port and prints its readiness line.
SidecarReady(p) ==
  /\ sidecar[p] = "starting"
  /\ Listeners = {}
  /\ sidecar' = [sidecar EXCEPT ![p] = "ready"]
  /\ UNCHANGED <<child, server_pid, call, srvRes, nstarts, external, lockVars, audioVars>>

\* The sidecar p ends by itself (a crash, or the port is taken).
SidecarExit(p) ==
  /\ sidecar[p] \in {"starting", "ready"}
  /\ sidecar' = Kill(sidecar, p)
  /\ UNCHANGED <<child, server_pid, call, srvRes, nstarts, external, lockVars, audioVars>>

\* A voicebox server of another app instance takes the free port.
ExternalAppears ==
  /\ ~external
  /\ Listeners = {}
  /\ external' = TRUE
  /\ UNCHANGED <<child, server_pid, sidecar, call, srvRes, nstarts, lockVars, audioVars>>

ServerNext ==
  \/ \E c \in Calls : StartServerBegin(c)
  \/ \E c \in Calls : StartServerProbe(c)
  \/ \E c \in Calls, o \in SpawnOutcomes : StartServerSpawn(c, o)
  \/ \E c \in Calls : StartServerReady(c)
  \/ \E c \in Calls : StartServerEnded(c)
  \/ \E c \in Calls : StartServerTimeout(c)
  \/ StopServer
  \/ \E p \in Sidecars : SidecarReady(p)
  \/ \E p \in Sidecars : SidecarExit(p)
  \/ ExternalAppears

ServerSpec == Init /\ [][ServerNext]_vars

\* the sidecars spawned by this app instance that are running
Alive == {p \in Sidecars : sidecar[p] \in {"starting", "ready"}}

\* C29: start_server spawns at most one sidecar until stop_server, also when
\* two start_server calls run concurrently: whenever a call spawns, the
\* state holds no child and no sidecar spawned earlier is still running, so
\* no stored child is replaced by another spawn.
C29_SingleSidecar ==
  [][ \A c \in Calls :
        StartServerSpawn(c, "ok") => (child = 0 /\ Alive = {}) ]_vars

\* C30: whenever start_server returns the URL, a voicebox server is
\* listening on the port, or the sidecar that the call spawned, or the one
\* held as child, has printed its readiness line.
C30_SuccessMeansReady ==
  [][ \A c \in Calls :
        ((StartServerBegin(c) \/ StartServerProbe(c) \/ StartServerReady(c))
           /\ srvRes'[c] = ServerUrl) =>
        \/ Listeners # {}
        \/ \E p \in Sidecars : p \in {child, call[c].proc} /\ Emitted(p) ]_vars

====
